---- MODULE Spec2Model ----
(***************************************************************************)
(* Schema validation (MapQuestionToSchema._run) and answer extraction     *)
(* (the /query handler retrieve_answer) of the CoPilot service.           *)
(***************************************************************************)
EXTENDS Integers, Sequences, FiniteSets, TLC

VARIABLES
    vpc,            \* position of one _run call: "parsed" (line 48 done) or "returned"
    conn,           \* the graph schema the connection answers from
    parsed_q,       \* the candidate parser.invoke produced (line 48)
    vresult,        \* what _run did: returned a value or raised
    pc,             \* per request: position in retrieve_answer
    outcome,        \* per request: what agent.question_for_agent did
    steps,          \* per request: the trace the agent returned
    function_call,  \* per request: local of line 103
    res,            \* per request: local of line 104
    resp,           \* NaturalLanguageQueryResponse, the class object every request writes
    returned,       \* per request: the response handed back at line 121
    own,            \* per request: the field values this request itself assigned
    calls           \* per request: number of agent.question_for_agent calls

vvars == <<vpc, conn, parsed_q, vresult>>
hvars == <<pc, outcome, steps, function_call, res, resp, returned, own, calls>>
vars == <<vpc, conn, parsed_q, vresult, pc, outcome, steps, function_call, res,
          resp, returned, own, calls>>

(***************************************************************************)
(* Bounds                                                                  *)
(***************************************************************************)
\* total number of entries in target_vertex_types and target_edge_types
MaxTypes == 2
\* total number of attribute names in the two target_*_attributes dicts
MaxAttrs == 1
\* number of fragments a last-step text is put together from (one request)
MaxParts == 2
\* the same, when two requests overlap
MaxPartsConc == 1

Names == {"Person", "Service"}
Attrs == {"email", "ssn"}

SeqUpTo(S, n) == UNION {[1..k -> S] : k \in 0..n}

RECURSIVE SumLen(_, _)
\* total length of the lists of dict d over the key set K
SumLen(d, K) ==
    IF K = {} THEN 0
    ELSE LET k == CHOOSE x \in K : TRUE
         IN Len(d[k]) + SumLen(d, K \ {k})

(***************************************************************************)
(* The schema behind TigerGraphConnection.  A type name is a vertex type,  *)
(* an edge type, or not in the graph; each type has its attribute names.   *)
(***************************************************************************)
Catalogs ==
    {c \in [kind : [Names -> {"vertex", "edge", "none"}],
            attrs : [Names -> SUBSET Attrs]] :
        \A n \in Names : c.kind[n] = "none" => c.attrs[n] = {}}

getVertexTypes(c) == {n \in Names : c.kind[n] = "vertex"}
getEdgeTypes(c) == {n \in Names : c.kind[n] = "edge"}
\* [x["AttributeName"] for x in conn.getVertexType(v)["Attributes"]]
getVertexTypeAttrs(c, v) == c.attrs[v]
\* [x["AttributeName"] for x in conn.getEdgeType(e)["Attributes"]]
getEdgeTypeAttrs(c, e) == c.attrs[e]

(***************************************************************************)
(* MapQuestionToSchemaResponse: two lists of type names and two dicts      *)
(* from type name to a list of attribute names.                            *)
(***************************************************************************)
AttrDicts == UNION {[D -> SeqUpTo(Attrs, MaxAttrs) \ {<<>>}] : D \in SUBSET Names}

Candidates ==
    {q \in [target_vertex_types : SeqUpTo(Names, MaxTypes),
            target_vertex_attributes : AttrDicts,
            target_edge_types : SeqUpTo(Names, MaxTypes),
            target_edge_attributes : AttrDicts] :
        /\ Len(q.target_vertex_types) + Len(q.target_edge_types) <= MaxTypes
        /\ SumLen(q.target_vertex_attributes, DOMAIN q.target_vertex_attributes)
             + SumLen(q.target_edge_attributes, DOMAIN q.target_edge_attributes)
             <= MaxAttrs}

\* dict.get(k, [])
Get(d, k) == IF k \in DOMAIN d THEN d[k] ELSE <<>>

Return(v) == [kind |-> "return", exc |-> "", msg |-> <<>>, value |-> v]
Raise(e, m) == [kind |-> "raise", exc |-> e, msg |-> m, value |-> <<>>]

\* line 57 / line 66: attr + " is not found for " + v + " in the data schema. ..."
AttrNotFound(attr, t) ==
    Raise("MapQuestionToSchemaException",
          <<attr, " is not found for ", t,
            " in the data schema. Please rephrase your question and try again.">>)

\* line 59: v + " is not found in the data schema. ..."
TypeNotFound(t) ==
    Raise("MapQuestionToSchemaException",
          <<t, " is not found in the data schema. Please rephrase your question and try again.">>)

\* a mutated attribute scan that never finds an unknown attribute
FirstUnknownAttrSkipped(list, attrs) == 0

\* the inner for loop (lines 55-56, 64-65): index of the first attr not in attrs, or 0
FirstUnknownAttr(list, attrs) ==
    IF \E i \in 1..Len(list) : list[i] \notin attrs
    THEN CHOOSE i \in 1..Len(list) :
            /\ list[i] \notin attrs
            /\ \A j \in 1..(i - 1) : list[j] \in attrs
    ELSE 0

\* a mutated membership test that takes every listed vertex type as known
VertexKnownAlways(c, v) == TRUE

\* line 53: v in vertices
VertexKnown(c, v) == v \in getVertexTypes(c)

\* a mutated membership test that looks the edge type up among the vertex types
EdgeKnownAmongVertices(c, e) == e \in getVertexTypes(c)

\* line 62: e in edges
EdgeKnown(c, e) == e \in getEdgeTypes(c)

RECURSIVE VertexLoop(_, _, _)
\* lines 52-59, from the i-th entry of target_vertex_types on
VertexLoop(q, c, i) ==
    IF i > Len(q.target_vertex_types) THEN Return(<<>>)
    ELSE LET v == q.target_vertex_types[i]
             list == Get(q.target_vertex_attributes, v)
         IN IF VertexKnown(c, v)
            THEN LET k == FirstUnknownAttr(list, getVertexTypeAttrs(c, v))
                 IN IF k # 0 THEN AttrNotFound(list[k], v)
                    ELSE VertexLoop(q, c, i + 1)
            ELSE TypeNotFound(v)

\* line 68: the message is built from v, the variable of the finished vertex loop;
\* with an empty target_vertex_types v was never bound
EdgeTypeNotFound(q, e) ==
    IF Len(q.target_vertex_types) = 0
    THEN Raise("UnboundLocalError", <<>>)
    ELSE TypeNotFound(q.target_vertex_types[Len(q.target_vertex_types)])

RECURSIVE EdgeLoop(_, _, _)
\* lines 61-68, from the i-th entry of target_edge_types on
EdgeLoop(q, c, i) ==
    IF i > Len(q.target_edge_types) THEN Return(<<>>)
    ELSE LET e == q.target_edge_types[i]
             list == Get(q.target_edge_attributes, e)
         IN IF EdgeKnown(c, e)
            THEN LET k == FirstUnknownAttr(list, getEdgeTypeAttrs(c, e))
                 IN IF k # 0 THEN AttrNotFound(list[k], e)
                    ELSE EdgeLoop(q, c, i + 1)
            ELSE EdgeTypeNotFound(q, e)

\* lines 50-69 of _run, applied to the parsed candidate
Validate(q, c) ==
    LET rv == VertexLoop(q, c, 1)
    IN IF rv.kind = "raise" THEN rv
       ELSE LET re == EdgeLoop(q, c, 1)
            IN IF re.kind = "raise" THEN re
               ELSE Return(q)

NoResult == [kind |-> "none", exc |-> "", msg |-> <<>>, value |-> <<>>]

(***************************************************************************)
(* The validator as a state machine: one call of _run on a parsed          *)
(* candidate against the live schema.                                      *)
(***************************************************************************)
Requests == {1, 2}

RunValidate ==
    /\ vpc = "parsed"
    /\ vresult' = Validate(parsed_q, conn)
    /\ vpc' = "returned"
    /\ UNCHANGED <<conn, parsed_q>>
    /\ UNCHANGED hvars

(***************************************************************************)
(* Texts.  A text is a sequence of lexemes; the three marker strings the   *)
(* handler splits on are lexemes of their own.  The blank between          *)
(* " produced" and "the result " lies in the part of the text both slices  *)
(* of lines 103-104 discard and is not written.                            *)
(***************************************************************************)
FunctionMarker == "Function "
ProducedMarker == " produced"
ResultMarker == "the result "
Quote == "\""
Digit == "5"
FuncNames == {"f", "g"}
Alphabet == {FunctionMarker, ProducedMarker, ResultMarker, Quote, Digit} \cup FuncNames

\* JSON literals over the alphabet: numbers and strings
Literals ==
    {<<Digit>>, <<Digit, Digit>>, <<Quote, "f", Quote>>,
     <<Quote, ResultMarker, Quote>>, <<Quote, FunctionMarker, Quote>>}

\* what a tool reports: "Function <name> produced the result <json>"
Report(n, j) == <<FunctionMarker, n, ProducedMarker, ResultMarker>> \o j

Fragments ==
    {<<t>> : t \in Alphabet} \cup Literals
        \cup {Report(n, j) : n \in FuncNames, j \in Literals}

ConcFragments == {Report("f", <<Digit>>), <<"g">>}

RECURSIVE Texts(_, _)
\* the texts put together from at most n of the fragments F
Texts(F, n) ==
    IF n = 0 THEN {<<>>}
    ELSE LET T == Texts(F, n - 1)
         IN T \cup {t \o f : t \in T, f \in F}

Has(s, t) == \E i \in 1..Len(s) : s[i] = t

RECURSIVE Split(_, _)
\* str.split(sep): the pieces between the occurrences of sep, left to right
Split(s, sep) ==
    IF ~Has(s, sep) THEN <<s>>
    ELSE LET i == CHOOSE k \in 1..Len(s) :
                      s[k] = sep /\ \A j \in 1..(k - 1) : s[j] # sep
         IN <<SubSeq(s, 1, i - 1)>> \o Split(SubSeq(s, i + 1, Len(s)), sep)

RECURSIVE NumVal(_)
\* the number a run of n digits "5" denotes
NumVal(n) == IF n = 0 THEN 0 ELSE 10 * NumVal(n - 1) + 5

IsNumber(s) == Len(s) >= 1 /\ \A i \in 1..Len(s) : s[i] = Digit
IsString(s) ==
    /\ Len(s) >= 2
    /\ s[1] = Quote
    /\ s[Len(s)] = Quote
    /\ \A i \in 2..(Len(s) - 1) : s[i] # Quote

\* json.loads: the decoded value, or JSONDecodeError
JsonLoads(s) ==
    IF IsNumber(s) THEN Return([t |-> "number", n |-> NumVal(Len(s)), s |-> <<>>])
    ELSE IF IsString(s)
         THEN Return([t |-> "string", n |-> 0, s |-> SubSeq(s, 2, Len(s) - 1)])
         ELSE Raise("JSONDecodeError", <<>>)

(***************************************************************************)
(* Traces.  steps["output"] is a string or the key is missing;             *)
(* steps["intermediate_steps"][-1][-1] is a text, or there is no step, or  *)
(* the last step does not end in a string.                                 *)
(***************************************************************************)
Missing == "<missing>"
Outputs == {"It is 5.", Missing}

Traces(T) ==
    [output : Outputs,
     last : [kind : {"text"}, text : T]
              \cup {[kind |-> "nosteps", text |-> <<>>],
                    [kind |-> "nottext", text |-> <<>>]}]

SeqTraces == Traces(Texts(Fragments, MaxParts))
ConcTraces == Traces(Texts(ConcFragments, MaxPartsConc))

NoTrace == [output |-> Missing, last |-> [kind |-> "nosteps", text |-> <<>>]]

\* str(steps)
Str(s) == [str |-> s]

\* steps["intermediate_steps"][-1][-1], as far as a str method can be called on it
Inspected(s) ==
    IF s.last.kind = "text" THEN Return(s.last.text)
    ELSE IF s.last.kind = "nosteps" THEN Raise("IndexError", <<>>)
    ELSE Raise("AttributeError", <<>>)

\* line 103: ....split("Function ")[1].split(" produced")[0]
Line103(s) ==
    LET t == Inspected(s)
    IN IF t.kind = "raise" THEN t
       ELSE LET p == Split(t.value, FunctionMarker)
            IN IF Len(p) < 2 THEN Raise("IndexError", <<>>)
               ELSE Return(Split(p[2], ProducedMarker)[1])

\* line 104: ....split("the result ")[-1]
Line104(s) ==
    LET t == Inspected(s)
    IN IF t.kind = "raise" THEN t
       ELSE LET p == Split(t.value, ResultMarker)
            IN Return(p[Len(p)])

(***************************************************************************)
(* The response object.  Line 98 binds resp to the class                   *)
(* NaturalLanguageQueryResponse itself, so the three fields below are      *)
(* attributes of one object shared by every request.                       *)
(***************************************************************************)
Unset == "<unset>"
NoSources == [kind |-> "unset"]
EmptySources == [kind |-> "empty"]
Structured(fc, r) == [kind |-> "structured", function_call |-> fc, result |-> r]
History(s) == [kind |-> "history", agent_history |-> Str(s)]

Response(n, q, a) ==
    [natural_language_response |-> n, query_sources |-> q, answered_question |-> a]

UnsetResponse == Response(Unset, NoSources, Unset)
EmptyResponse == Response("", EmptySources, "False")
FallbackResponse(s) == Response(s.output, History(s), "False")

\* what an earlier request may have left in the class attributes
Leftovers == {UnsetResponse, EmptyResponse,
              Response("It is 5.", Structured(<<"f">>, JsonLoads(<<Digit>>).value), "True")}

Failures == {"OutputParserException", "MapQuestionToSchemaException", "Exception"}

\* line 101: agent.question_for_agent(query.query) returns a trace or raises
CallAgent(r, T) ==
    /\ pc[r] = "l101"
    /\ calls' = [calls EXCEPT ![r] = @ + 1]
    /\ \/ \E s \in T :
            /\ steps' = [steps EXCEPT ![r] = s]
            /\ outcome' = [outcome EXCEPT ![r] = "trace"]
            /\ pc' = [pc EXCEPT ![r] = "l103"]
       \/ \E e \in Failures :
            /\ outcome' = [outcome EXCEPT ![r] = e]
            /\ pc' = [pc EXCEPT ![r] =
                        IF e = "MapQuestionToSchemaException" THEN "l114" ELSE "l118"]
            /\ UNCHANGED steps
    /\ UNCHANGED <<function_call, res, resp, returned, own>>
    /\ UNCHANGED vvars

\* lines 103-104: the two slices, or the jump to the inner except
L103(r) ==
    /\ pc[r] = "l103"
    /\ LET f == Line103(steps[r])
           x == Line104(steps[r])
       IN IF f.kind = "raise" \/ x.kind = "raise"
          THEN /\ pc' = [pc EXCEPT ![r] = "l110"]
               /\ UNCHANGED <<function_call, res>>
          ELSE /\ function_call' = [function_call EXCEPT ![r] = f.value]
               /\ res' = [res EXCEPT ![r] = x.value]
               /\ pc' = [pc EXCEPT ![r] = "l105"]
    /\ UNCHANGED <<outcome, steps, resp, returned, own, calls>>
    /\ UNCHANGED vvars

\* line 105: resp.natural_language_response = steps["output"]
L105(r) ==
    /\ pc[r] = "l105"
    /\ IF steps[r].output = Missing
       THEN /\ pc' = [pc EXCEPT ![r] = "l110"]
            /\ UNCHANGED <<resp, own>>
       ELSE /\ resp' = [resp EXCEPT !.natural_language_response = steps[r].output]
            /\ own' = [own EXCEPT ![r].natural_language_response = steps[r].output]
            /\ pc' = [pc EXCEPT ![r] = "l106"]
    /\ UNCHANGED <<outcome, steps, function_call, res, returned, calls>>
    /\ UNCHANGED vvars

\* lines 106-107: resp.query_sources = {"function_call": ..., "result": json.loads(res)}
L106(r) ==
    /\ pc[r] = "l106"
    /\ LET j == JsonLoads(res[r])
       IN IF j.kind = "raise"
          THEN /\ pc' = [pc EXCEPT ![r] = "l110"]
               /\ UNCHANGED <<resp, own>>
          ELSE /\ resp' = [resp EXCEPT !.query_sources = Structured(function_call[r], j.value)]
               /\ own' = [own EXCEPT ![r].query_sources = Structured(function_call[r], j.value)]
               /\ pc' = [pc EXCEPT ![r] = "l108"]
    /\ UNCHANGED <<outcome, steps, function_call, res, returned, calls>>
    /\ UNCHANGED vvars

\* line 108: resp.answered_question = True
L108(r) ==
    /\ pc[r] = "l108"
    /\ resp' = [resp EXCEPT !.answered_question = "True"]
    /\ own' = [own EXCEPT ![r].answered_question = "True"]
    /\ pc' = [pc EXCEPT ![r] = "l121"]
    /\ UNCHANGED <<outcome, steps, function_call, res, returned, calls>>
    /\ UNCHANGED vvars

\* line 110, in the inner except: resp.natural_language_response = steps["output"];
\* a KeyError raised here is caught by the outer except Exception
L110(r) ==
    /\ pc[r] = "l110"
    /\ IF steps[r].output = Missing
       THEN /\ pc' = [pc EXCEPT ![r] = "l118"]
            /\ UNCHANGED <<resp, own>>
       ELSE /\ resp' = [resp EXCEPT !.natural_language_response = steps[r].output]
            /\ own' = [own EXCEPT ![r].natural_language_response = steps[r].output]
            /\ pc' = [pc EXCEPT ![r] = "l111"]
    /\ UNCHANGED <<outcome, steps, function_call, res, returned, calls>>
    /\ UNCHANGED vvars

\* line 111: resp.query_sources = {"agent_history": str(steps)}
L111(r) ==
    /\ pc[r] = "l111"
    /\ resp' = [resp EXCEPT !.query_sources = History(steps[r])]
    /\ own' = [own EXCEPT ![r].query_sources = History(steps[r])]
    /\ pc' = [pc EXCEPT ![r] = "l112"]
    /\ UNCHANGED <<outcome, steps, function_call, res, returned, calls>>
    /\ UNCHANGED vvars

\* line 112: resp.answered_question = False
L112(r) ==
    /\ pc[r] = "l112"
    /\ resp' = [resp EXCEPT !.answered_question = "False"]
    /\ own' = [own EXCEPT ![r].answered_question = "False"]
    /\ pc' = [pc EXCEPT ![r] = "l121"]
    /\ UNCHANGED <<outcome, steps, function_call, res, returned, calls>>
    /\ UNCHANGED vvars

\* line 114, in except MapQuestionToSchemaException
L114(r) ==
    /\ pc[r] = "l114"
    /\ resp' = [resp EXCEPT !.natural_language_response = ""]
    /\ own' = [own EXCEPT ![r].natural_language_response = ""]
    /\ pc' = [pc EXCEPT ![r] = "l115"]
    /\ UNCHANGED <<outcome, steps, function_call, res, returned, calls>>
    /\ UNCHANGED vvars

\* line 115
L115(r) ==
    /\ pc[r] = "l115"
    /\ resp' = [resp EXCEPT !.query_sources = EmptySources]
    /\ own' = [own EXCEPT ![r].query_sources = EmptySources]
    /\ pc' = [pc EXCEPT ![r] = "l116"]
    /\ UNCHANGED <<outcome, steps, function_call, res, returned, calls>>
    /\ UNCHANGED vvars

\* line 116
L116(r) ==
    /\ pc[r] = "l116"
    /\ resp' = [resp EXCEPT !.answered_question = "False"]
    /\ own' = [own EXCEPT ![r].answered_question = "False"]
    /\ pc' = [pc EXCEPT ![r] = "l121"]
    /\ UNCHANGED <<outcome, steps, function_call, res, returned, calls>>
    /\ UNCHANGED vvars

\* line 118, in except Exception
L118(r) ==
    /\ pc[r] = "l118"
    /\ resp' = [resp EXCEPT !.natural_language_response = ""]
    /\ own' = [own EXCEPT ![r].natural_language_response = ""]
    /\ pc' = [pc EXCEPT ![r] = "l119"]
    /\ UNCHANGED <<outcome, steps, function_call, res, returned, calls>>
    /\ UNCHANGED vvars

\* line 119
L119(r) ==
    /\ pc[r] = "l119"
    /\ resp' = [resp EXCEPT !.query_sources = EmptySources]
    /\ own' = [own EXCEPT ![r].query_sources = EmptySources]
    /\ pc' = [pc EXCEPT ![r] = "l120"]
    /\ UNCHANGED <<outcome, steps, function_call, res, returned, calls>>
    /\ UNCHANGED vvars

\* line 120
L120(r) ==
    /\ pc[r] = "l120"
    /\ resp' = [resp EXCEPT !.answered_question = "False"]
    /\ own' = [own EXCEPT ![r].answered_question = "False"]
    /\ pc' = [pc EXCEPT ![r] = "l121"]
    /\ UNCHANGED <<outcome, steps, function_call, res, returned, calls>>
    /\ UNCHANGED vvars

\* line 121: return resp; the caller reads the three fields of the class
L121(r) ==
    /\ pc[r] = "l121"
    /\ returned' = [returned EXCEPT ![r] = resp]
    /\ pc' = [pc EXCEPT ![r] = "done"]
    /\ UNCHANGED <<outcome, steps, function_call, res, resp, own, calls>>
    /\ UNCHANGED vvars

(***************************************************************************)
(* Specifications                                                          *)
(***************************************************************************)
HandlerIdle(active) ==
    /\ pc = [r \in Requests |-> IF r \in active THEN "l101" ELSE "off"]
    /\ outcome = [r \in Requests |-> "none"]
    /\ steps = [r \in Requests |-> NoTrace]
    /\ function_call = [r \in Requests |-> <<>>]
    /\ res = [r \in Requests |-> <<>>]
    /\ returned = [r \in Requests |-> UnsetResponse]
    /\ own = [r \in Requests |-> UnsetResponse]
    /\ calls = [r \in Requests |-> 0]

ValidatorOff ==
    /\ vpc = "off"
    /\ conn = CHOOSE c \in Catalogs : \A n \in Names : c.kind[n] = "none"
    /\ parsed_q = [target_vertex_types |-> <<>>, target_vertex_attributes |-> <<>>,
                   target_edge_types |-> <<>>, target_edge_attributes |-> <<>>]
    /\ vresult = NoResult

\* one _run call on any candidate against any schema
InitValidate ==
    /\ vpc = "parsed"
    /\ parsed_q \in Candidates
    /\ conn \in Catalogs
    /\ vresult = NoResult
    /\ HandlerIdle({})
    /\ resp = UnsetResponse

SpecValidate == InitValidate /\ [][RunValidate]_vars

\* one /query request served with no other request in flight
InitSeq ==
    /\ ValidatorOff
    /\ HandlerIdle({1})
    /\ resp \in Leftovers

NextSeq ==
    \/ CallAgent(1, SeqTraces)
    \/ L103(1) \/ L105(1) \/ L106(1) \/ L108(1)
    \/ L110(1) \/ L111(1) \/ L112(1)
    \/ L114(1) \/ L115(1) \/ L116(1)
    \/ L118(1) \/ L119(1) \/ L120(1)
    \/ L121(1)

SpecSeq == InitSeq /\ [][NextSeq]_vars

\* the /query requests served by the worker threads at the same time
Init ==
    /\ ValidatorOff
    /\ HandlerIdle(Requests)
    /\ resp = UnsetResponse

Next ==
    \E r \in Requests :
        \/ CallAgent(r, ConcTraces)
        \/ L103(r) \/ L105(r) \/ L106(r) \/ L108(r)
        \/ L110(r) \/ L111(r) \/ L112(r)
        \/ L114(r) \/ L115(r) \/ L116(r)
        \/ L118(r) \/ L119(r) \/ L120(r)
        \/ L121(r)

Spec == Init /\ [][Next]_vars

(***************************************************************************)
(* Properties of MapQuestionToSchema._run (SpecValidate)                   *)
(***************************************************************************)
ListedVertexTypes == {parsed_q.target_vertex_types[i] : i \in 1..Len(parsed_q.target_vertex_types)}
ListedEdgeTypes == {parsed_q.target_edge_types[i] : i \in 1..Len(parsed_q.target_edge_types)}
UnknownVertexTypes == {v \in ListedVertexTypes : conn.kind[v] # "vertex"}

\* the attributes claimed for vertex type v are all attributes of v in the schema
VertexAttrsKnown(v) ==
    \A j \in 1..Len(Get(parsed_q.target_vertex_attributes, v)) :
        Get(parsed_q.target_vertex_attributes, v)[j] \in conn.attrs[v]
EdgeAttrsKnown(e) ==
    \A j \in 1..Len(Get(parsed_q.target_edge_attributes, e)) :
        Get(parsed_q.target_edge_attributes, e)[j] \in conn.attrs[e]

\* the one unknown vertex type and the place it is first listed
TheUnknownVertexType == CHOOSE v \in UnknownVertexTypes : TRUE
FirstListedAt(v) ==
    CHOOSE i \in 1..Len(parsed_q.target_vertex_types) :
        /\ parsed_q.target_vertex_types[i] = v
        /\ \A j \in 1..(i - 1) : parsed_q.target_vertex_types[j] # v
\* the entries before the unknown type that claim an attribute the schema lacks
BadAttrBefore ==
    {i \in 1..(FirstListedAt(TheUnknownVertexType) - 1) :
        ~VertexAttrsKnown(parsed_q.target_vertex_types[i])}

IsUnknownTypeError(x, t) ==
    /\ x.kind = "raise"
    /\ x.exc = "MapQuestionToSchemaException"
    /\ Len(x.msg) = 2
    /\ x.msg[1] = t
IsUnknownAttrError(x, t) ==
    /\ x.kind = "raise"
    /\ x.exc = "MapQuestionToSchemaException"
    /\ Len(x.msg) = 4
    /\ x.msg[3] = t
    /\ x.msg[1] \notin conn.attrs[t]

\* C1 as stated: with exactly one unknown target vertex type V, _run fails with the
\* unknown-type error naming V, whatever else in the candidate is invalid.
C1_UnknownTypeAlwaysNamed ==
    (vpc = "returned" /\ Cardinality(UnknownVertexTypes) = 1)
        => IsUnknownTypeError(vresult, TheUnknownVertexType)

\* C1 amended: with exactly one unknown target vertex type V, _run fails with the
\* unknown-type error naming V unless a known vertex type listed before V claims an
\* attribute the schema lacks; then it fails with the unknown-attribute error of the
\* first such entry (the first violation in list order wins).
C1_FirstViolationWins ==
    (vpc = "returned" /\ Cardinality(UnknownVertexTypes) = 1)
        => IF BadAttrBefore = {}
           THEN IsUnknownTypeError(vresult, TheUnknownVertexType)
           ELSE LET i == CHOOSE k \in BadAttrBefore : \A m \in BadAttrBefore : k <= m
                IN IsUnknownAttrError(vresult, parsed_q.target_vertex_types[i])

C1_Witness ==
    /\ vpc = "returned"
    /\ Cardinality(UnknownVertexTypes) = 1
    /\ BadAttrBefore # {}
    /\ vresult.kind = "raise"

VertexChecksPass ==
    \A v \in ListedVertexTypes : conn.kind[v] = "vertex" /\ VertexAttrsKnown(v)

\* C2: when all vertex checks pass and the first edge violation is a target edge type E
\* that is not an edge type of the schema, _run fails with a
\* MapQuestionToSchemaException whose message names E, also with no target vertex types.
C2_UnknownEdgeNamed ==
    vpc = "returned" /\ VertexChecksPass
        => \A i \in 1..Len(parsed_q.target_edge_types) :
              (/\ conn.kind[parsed_q.target_edge_types[i]] # "edge"
               /\ \A j \in 1..(i - 1) :
                     /\ conn.kind[parsed_q.target_edge_types[j]] = "edge"
                     /\ EdgeAttrsKnown(parsed_q.target_edge_types[j]))
              => IsUnknownTypeError(vresult, parsed_q.target_edge_types[i])

AllPresent ==
    /\ \A v \in ListedVertexTypes : conn.kind[v] = "vertex"
    /\ \A e \in ListedEdgeTypes : conn.kind[e] = "edge"
    /\ \A v \in DOMAIN parsed_q.target_vertex_attributes :
          conn.kind[v] = "vertex" /\ VertexAttrsKnown(v)
    /\ \A e \in DOMAIN parsed_q.target_edge_attributes :
          conn.kind[e] = "edge" /\ EdgeAttrsKnown(e)

\* C3: a candidate whose target types and per-type attributes are all in the schema
\* raises no error and is returned with every field unchanged.
C3_ValidPassThrough ==
    (vpc = "returned" /\ AllPresent)
        => vresult.kind = "return" /\ vresult.value = parsed_q

C3_Witness ==
    /\ vpc = "returned"
    /\ AllPresent
    /\ parsed_q.target_vertex_types # <<>>
    /\ parsed_q.target_edge_types # <<>>
    /\ DOMAIN parsed_q.target_vertex_attributes # {}
    /\ vresult.kind = "return"

\* C9 as stated: a returned candidate lists only schema types, and every attribute in
\* the two attribute dicts, also under a key that is not a listed target type, is an
\* attribute of its owning type.
C9_SoundForEveryKey ==
    (vpc = "returned" /\ vresult.kind = "return")
        => /\ \A v \in ListedVertexTypes : conn.kind[v] = "vertex"
           /\ \A e \in ListedEdgeTypes : conn.kind[e] = "edge"
           /\ \A v \in DOMAIN parsed_q.target_vertex_attributes :
                 conn.kind[v] = "vertex" /\ VertexAttrsKnown(v)
           /\ \A e \in DOMAIN parsed_q.target_edge_attributes :
                 conn.kind[e] = "edge" /\ EdgeAttrsKnown(e)

\* C9 amended: a returned candidate lists only schema types, and every attribute
\* listed under a key that is one of the listed target types is an attribute of that
\* type; attributes under other keys are not looked at.
C9_SoundForListedTypes ==
    (vpc = "returned" /\ vresult.kind = "return")
        => /\ \A v \in ListedVertexTypes : conn.kind[v] = "vertex" /\ VertexAttrsKnown(v)
           /\ \A e \in ListedEdgeTypes : conn.kind[e] = "edge" /\ EdgeAttrsKnown(e)

C9_Witness ==
    /\ vpc = "returned"
    /\ vresult.kind = "return"
    /\ parsed_q.target_vertex_types # <<>>
    /\ \E k \in DOMAIN parsed_q.target_vertex_attributes : k \notin ListedVertexTypes

(***************************************************************************)
(* Properties of retrieve_answer                                           *)
(***************************************************************************)
Text(r) == steps[r].last.text
GotTrace(r) == pc[r] = "done" /\ outcome[r] = "trace"
GotText(r) == GotTrace(r) /\ steps[r].last.kind = "text" /\ steps[r].output # Missing
Suffix(t, i) == SubSeq(t, i + 1, Len(t))

\* C4: a trace with a final output whose inspected text contains "Function ",
\* "the result " and a valid JSON literal after the result marker is answered with
\* answered_question = true and query_sources.result = the decoded literal, also
\* when the literal's own text contains "the result ".
C4_RoundTrip ==
    \A r \in Requests :
        (GotText(r) /\ Has(Text(r), FunctionMarker))
            => \A i \in 1..Len(Text(r)) :
                  (Text(r)[i] = ResultMarker /\ JsonLoads(Suffix(Text(r), i)).kind = "return")
                  => /\ returned[r].answered_question = "True"
                     /\ returned[r].query_sources.kind = "structured"
                     /\ returned[r].query_sources.result = JsonLoads(Suffix(Text(r), i)).value

\* C5: for every trace the agent returns the handler ends without raising, and
\* whenever the structured path did not succeed the response is the fallback:
\* the final output, {agent_history: str(steps)}, false.
C5_FallbackTotal ==
    \A r \in Requests :
        (GotTrace(r) /\ returned[r].answered_question # "True")
            => returned[r] = Response(steps[r].output, History(steps[r]), "False")

\* C6: when agent.question_for_agent fails, for whichever reason, the request ends
\* with "", {}, false, and the agent was called once.  It holds of a request served
\* alone (SpecSeq) and fails when requests overlap (Spec), through the shared resp.
C6_FailuresCollapse ==
    \A r \in Requests :
        (pc[r] = "done" /\ outcome[r] \in Failures)
            => /\ returned[r].natural_language_response = ""
               /\ returned[r].query_sources = [kind |-> "empty"]
               /\ returned[r].answered_question = "False"
               /\ calls[r] = 1

\* C7: the response a request returns carries, in all three fields, the values that
\* request itself assigned.
C7_Isolated ==
    \A r \in Requests : pc[r] = "done" => returned[r] = own[r]

\* C8: answered_question = true is returned only when the inspected text contains both
\* "Function " and "the result "; with either absent the response is the fallback.
C8_BothMarkersNeeded ==
    \A r \in Requests :
        GotText(r)
            => /\ returned[r].answered_question = "True"
                    => Has(Text(r), FunctionMarker) /\ Has(Text(r), ResultMarker)
               /\ ~(Has(Text(r), FunctionMarker) /\ Has(Text(r), ResultMarker))
                    => returned[r] = Response(steps[r].output, History(steps[r]), "False")

\* C10: when the inspected text holds two reports "Function <name> produced the result
\* <json>", the function_call returned is the name of the last one, whose result is
\* the one returned.
C10_LastInvocation ==
    \A r \in Requests :
        GotText(r)
            => \A n1 \in FuncNames, n2 \in FuncNames, j1 \in Literals, j2 \in Literals :
                  (/\ Text(r) = Report(n1, j1) \o Report(n2, j2)
                   /\ returned[r].answered_question = "True")
                  => /\ returned[r].query_sources.kind = "structured"
                     /\ returned[r].query_sources.function_call = <<n2>>
                     /\ returned[r].query_sources.result = JsonLoads(j2).value

====
